---- MODULE Spec2Model ----
(***************************************************************************)
(* Aviation compliance checker: the rule catalogs (rules.ts), the          *)
(* ComplianceChecker engine (checker.ts) and the action entry point run(). *)
(*                                                                         *)
(* A document is a sequence of text lines drawn from a fixed vocabulary.   *)
(* Every regular expression of the rule catalog is represented by the set  *)
(* of vocabulary lines it matches, so pattern.test(content) is "some line  *)
(* of the content is in the pattern's set".  The vocabulary is chosen so   *)
(* that no pattern matches across a line break.                            *)
(*                                                                         *)
(* Time is counted in hours since the epoch.                               *)
(***************************************************************************)
EXTENDS Integers, Sequences, FiniteSets, TLC

VARIABLES
    options,          \* CheckOptions: the four category flags
    failOnViolation,  \* input fail-on-violation
    filePatterns,     \* input files, split at commas
    disk,             \* file name -> document (readable or not)
    now,              \* the wall clock, what new Date() returns
    pc,               \* position of run()
    rules,            \* ComplianceChecker.rules (rule ids, in order)
    files,            \* result of findFiles
    fileResults,      \* checkFiles' local fileResults
    report,           \* <<the ComplianceReport>>, or << >> before there is one
    markdown,         \* result of generateMarkdownReport (lines), << >> before
    reportFile,       \* aviation-compliance-report.md as written, << >> before
    outputs,          \* <<the outputs set by core.setOutput>>, << >> before
    failed,           \* core.setFailed has been called
    policyLog,        \* the branch taken at the end of run()
    runs,             \* number of invocations started
    prevReport,       \* report of the previous invocation
    clockReads        \* <<previous, current>>: the clock values the rule
                      \* checks of the two invocations have read

vars == <<options, failOnViolation, filePatterns, disk, now, pc, rules, files,
          fileResults, report, markdown, reportFile, outputs, failed, policyLog,
          runs, prevReport, clockReads>>

----------------------------------------------------------------------------
(* Bounds of the model *)

MaxPatterns == 2
MaxRuns == 2
MaxTicks == 1
MaxPureFiles == 3

None == "None"

----------------------------------------------------------------------------
(* rules.ts: regular expressions, as the sets of vocabulary lines they match *)

\* variant: one regular expression object with the g flag shared by all
\* invocations, so that a later invocation starts after the earlier match
TestSharedGlobal(pattern, content) ==
    runs = 1 /\ \E i \in DOMAIN content.lines : content.lines[i] \in pattern

Test(pattern, content) == \E i \in DOMAIN content.lines : content.lines[i] \in pattern

returnToServicePattern == {"Approved for return to service"}
adPattern == {"AD 2023-15-09 inspected"}
compliancePattern == {"Complied with service bulletin"}
nightPattern == {"Night cross country", "Night Time: 1.2"}
nightTimePattern == {"Night Time: 1.2"}
approachPattern == {"Instrument approach flown"}
approachDetailsPattern == {"ILS RWY 36C"}
annualPattern == {"Annual inspection performed"}
datePattern == {"Date: 10/31/2025", "Date: 01/15/2024", "Date: 12/31/2027",
                "AD 2023-15-09 inspected"}
wbPattern == {"Weight and Balance on file"}

\* content.match(datePattern): the first date-shaped substring, or None
DateCapture(line) ==
    CASE line = "Date: 10/31/2025" -> "10/31/2025"
      [] line = "Date: 01/15/2024" -> "01/15/2024"
      [] line = "Date: 12/31/2027" -> "12/31/2027"
      [] line = "AD 2023-15-09 inspected" -> "23-15-09"
      [] OTHER -> None

Match(content, pattern) ==
    LET hits == {i \in DOMAIN content.lines : content.lines[i] \in pattern}
    IN  IF hits = {} THEN None
        ELSE DateCapture(content.lines[CHOOSE i \in hits : \A j \in hits : i <= j])

\* new Date(string).getTime(), in hours: local midnight of the day, counted
\* in days since the epoch; "23-15-09" names month 23: Invalid Date, time NaN
DateGetTime(text) ==
    CASE text = "10/31/2025" -> [nan |-> FALSE, time |-> 20392 * 24]
      [] text = "01/15/2024" -> [nan |-> FALSE, time |-> 19737 * 24]
      [] text = "12/31/2027" -> [nan |-> FALSE, time |-> 21183 * 24]
      [] OTHER -> [nan |-> TRUE, time |-> 0]

----------------------------------------------------------------------------
(* rules.ts: the four catalogs *)

maintenanceLogRules ==
    << [id |-> "MAINT-001", category |-> "maintenance", severity |-> "error",
        regulation |-> "14 CFR 43.9(a)"],
       [id |-> "MAINT-002", category |-> "maintenance", severity |-> "error",
        regulation |-> "14 CFR 43.9(a)(4)"],
       [id |-> "MAINT-003", category |-> "maintenance", severity |-> "error",
        regulation |-> "14 CFR 91.409(a)"],
       [id |-> "MAINT-004", category |-> "maintenance", severity |-> "warning",
        regulation |-> "14 CFR 39"] >>

pilotLogRules ==
    << [id |-> "PILOT-001", category |-> "pilot-log", severity |-> "error",
        regulation |-> "14 CFR 61.51(b)"],
       [id |-> "PILOT-002", category |-> "pilot-log", severity |-> "warning",
        regulation |-> "14 CFR 61.51(b)(3)"],
       [id |-> "PILOT-003", category |-> "pilot-log", severity |-> "warning",
        regulation |-> "14 CFR 61.51(g)"] >>

airworthinessRules ==
    << [id |-> "AROW-001", category |-> "airworthiness", severity |-> "error",
        regulation |-> "14 CFR 91.203"],
       [id |-> "INSP-001", category |-> "airworthiness", severity |-> "error",
        regulation |-> "14 CFR 91.409(a)"] >>

weightBalanceRules ==
    << [id |-> "WB-001", category |-> "weight-balance", severity |-> "error",
        regulation |-> "14 CFR 91.9"] >>

allRules == maintenanceLogRules \o pilotLogRules \o airworthinessRules \o weightBalanceRules

RuleIds == {allRules[i].id : i \in DOMAIN allRules}

----------------------------------------------------------------------------
(* rules.ts: the check functions.  A message or suggestion is the sequence *)
(* of the pieces of its template; an absent suggestion is the empty one.   *)

\* variant: the loop stops at the first item whose pattern does not match
MissingFirstOnly(items, content) ==
    LET all == SelectSeq(items, LAMBDA it : ~Test(it.pattern, content))
    IN  IF all = << >> THEN << >> ELSE << Head(all) >>

\* requiredFields.forEach / documents.forEach / requiredData.forEach:
\* the items whose pattern does not match, in the order listed
Missing(items, content) == SelectSeq(items, LAMBDA it : ~Test(it.pattern, content))

MAINT001check(content) ==
    LET requiredFields ==
          << [field |-> "description", pattern |-> {"Description: Oil change"},
              name |-> "Description of work performed"],
             [field |-> "date", pattern |-> {"Date: 10/31/2025", "Date: 01/15/2024",
                                       "Date: 12/31/2027"},
              name |-> "Date of completion"],
             [field |-> "aircraft", pattern |-> {"Aircraft: N12345", "Registration: N54321"},
              name |-> "Aircraft identification"],
             [field |-> "signature", pattern |-> {"Signature: John Smith"},
              name |-> "Signature and certificate number"] >>
        missing == Missing(requiredFields, content)
    IN  [i \in 1..Len(missing) |->
            [ruleId |-> "MAINT-001",
             message |-> <<"Missing required field: ", missing[i].name>>,
             severity |-> "error",
             regulation |-> "14 CFR 43.9(a)",
             suggestion |-> <<"Add ", missing[i].field, " field to maintenance log entry">>]]

MAINT002check(content) ==
    IF ~Test(returnToServicePattern, content)
    THEN << [ruleId |-> "MAINT-002",
             message |-> <<"Missing return to service statement">>,
             severity |-> "error",
             regulation |-> "14 CFR 43.9(a)(4)",
             suggestion |-> <<"Include \"Approved for return to service\" or equivalent statement">>] >>
    ELSE << >>

\* variant: the Appendix D reference is required of every document
MAINT003checkUngated(content) ==
    IF ~Test({"per 14 CFR 43 Appendix D"}, content)
    THEN << [ruleId |-> "MAINT-003",
             message |-> <<"Annual inspection must reference 14 CFR 43 Appendix D">>,
             severity |-> "error",
             regulation |-> "14 CFR 91.409(a)",
             suggestion |-> <<"Include reference to \"14 CFR 43 Appendix D\" in annual inspection entry">>] >>
    ELSE << >>

MAINT003check(content) ==
    LET isAnnualInspection == Test({"Annual inspection performed"}, content)
        appendixDReference == Test({"per 14 CFR 43 Appendix D"}, content)
    IN  IF isAnnualInspection /\ ~appendixDReference
        THEN << [ruleId |-> "MAINT-003",
                 message |-> <<"Annual inspection must reference 14 CFR 43 Appendix D">>,
                 severity |-> "error",
                 regulation |-> "14 CFR 91.409(a)",
                 suggestion |-> <<"Include reference to \"14 CFR 43 Appendix D\" in annual inspection entry">>] >>
        ELSE << >>

\* variant: the violation pushed with the severity of the neighbouring rules
MAINT004checkAsError(content) ==
    IF Test(adPattern, content) /\ ~Test(compliancePattern, content)
    THEN << [ruleId |-> "MAINT-004",
             message |-> <<"AD reference found but compliance statement missing">>,
             severity |-> "error",
             regulation |-> "14 CFR 39",
             suggestion |-> <<"Include statement confirming AD compliance">>] >>
    ELSE << >>

MAINT004check(content) ==
    LET hasADReference == Test(adPattern, content)
    IN  IF hasADReference /\ ~Test(compliancePattern, content)
        THEN << [ruleId |-> "MAINT-004",
                 message |-> <<"AD reference found but compliance statement missing">>,
                 severity |-> "warning",
                 regulation |-> "14 CFR 39",
                 suggestion |-> <<"Include statement confirming AD compliance">>] >>
        ELSE << >>

PILOT001check(content) ==
    LET requiredFields ==
          << [field |-> "date", pattern |-> {"Date: 10/31/2025", "Date: 01/15/2024",
                                       "Date: 12/31/2027"},
              name |-> "Date"],
             [field |-> "aircraft", pattern |-> {"Aircraft: N12345"},
              name |-> "Aircraft make and model"],
             [field |-> "registration", pattern |-> {"Registration: N54321"},
              name |-> "Aircraft registration"],
             [field |-> "flight-time", pattern |-> {"Total Time: 2.5"},
              name |-> "Total flight time"] >>
        missing == Missing(requiredFields, content)
    IN  [i \in 1..Len(missing) |->
            [ruleId |-> "PILOT-001",
             message |-> <<"Missing required field: ", missing[i].name>>,
             severity |-> "error",
             regulation |-> "14 CFR 61.51(b)",
             suggestion |-> <<"Add ", missing[i].field, " to logbook entry">>]]

PILOT002check(content) ==
    IF Test(nightPattern, content) /\ ~Test(nightTimePattern, content)
    THEN << [ruleId |-> "PILOT-002",
             message |-> <<"Night operation indicated but night time not logged">>,
             severity |-> "warning",
             regulation |-> "14 CFR 61.51(b)(3)",
             suggestion |-> <<"Log night flight time separately">>] >>
    ELSE << >>

PILOT003check(content) ==
    IF Test(approachPattern, content) /\ ~Test(approachDetailsPattern, content)
    THEN << [ruleId |-> "PILOT-003",
             message |-> <<"Instrument approach logged without type and runway">>,
             severity |-> "warning",
             regulation |-> "14 CFR 61.51(g)",
             suggestion |-> <<"Include approach type (ILS, RNAV, etc.) and runway">>] >>
    ELSE << >>

AROW001check(content) ==
    LET documents ==
          << [name |-> "Airworthiness Certificate",
              pattern |-> {"Airworthiness Certificate on board"}],
             [name |-> "Registration", pattern |-> {"Registration: N54321"}],
             [name |-> "Operating Limitations", pattern |-> {"POH on board"}],
             [name |-> "Weight and Balance", pattern |-> {"Weight and Balance on file"}] >>
        missing == Missing(documents, content)
    IN  [i \in 1..Len(missing) |->
            [ruleId |-> "AROW-001",
             message |-> <<"Missing AROW document reference: ", missing[i].name>>,
             severity |-> "error",
             regulation |-> "14 CFR 91.203",
             suggestion |-> <<"Ensure ", missing[i].name, " is documented and current">>]]

\* variant: an invalid date counts as overdue
DaysSinceExceedsOrInvalid(today, inspectionDate) ==
    IF inspectionDate.nan THEN TRUE ELSE (today - inspectionDate.time) > 365 * 24

\* daysSinceInspection > 365, both sides in hours; a NaN never compares greater
DaysSinceExceeds(today, inspectionDate) ==
    IF inspectionDate.nan THEN FALSE ELSE (today - inspectionDate.time) > 365 * 24

INSP001check(content, today) ==
    IF Test(annualPattern, content)
    THEN LET match == Match(content, datePattern)
         IN  IF match # None /\ DaysSinceExceeds(today, DateGetTime(match))
             THEN << [ruleId |-> "INSP-001",
                      message |-> <<"Annual inspection appears to be out of date">>,
                      severity |-> "error",
                      regulation |-> "14 CFR 91.409(a)",
                      suggestion |-> <<"Annual inspection must be completed within preceding 12 calendar months">>] >>
             ELSE << >>
    ELSE << >>

WB001check(content) ==
    IF Test(wbPattern, content)
    THEN LET requiredData ==
               << [name |-> "Empty Weight", pattern |-> {"Empty Weight: 1650"}],
                  [name |-> "CG Location", pattern |-> {"CG: 39.5"}],
                  [name |-> "Useful Load", pattern |-> {"Useful Load: 870"}] >>
             missing == Missing(requiredData, content)
         IN  [i \in 1..Len(missing) |->
                 [ruleId |-> "WB-001",
                  message |-> <<"Missing weight and balance data: ", missing[i].name>>,
                  severity |-> "error",
                  regulation |-> "14 CFR 91.9",
                  suggestion |-> <<"Include ", missing[i].name, " in weight and balance documentation">>]]
    ELSE << >>

\* rule.check(content, filename) of the rule with this id; today is what the
\* rule reads from the clock
check(ruleId, content, today) ==
    CASE ruleId = "MAINT-001" -> MAINT001check(content)
      [] ruleId = "MAINT-002" -> MAINT002check(content)
      [] ruleId = "MAINT-003" -> MAINT003check(content)
      [] ruleId = "MAINT-004" -> MAINT004check(content)
      [] ruleId = "PILOT-001" -> PILOT001check(content)
      [] ruleId = "PILOT-002" -> PILOT002check(content)
      [] ruleId = "PILOT-003" -> PILOT003check(content)
      [] ruleId = "AROW-001" -> AROW001check(content)
      [] ruleId = "INSP-001" -> INSP001check(content, today)
      [] ruleId = "WB-001" -> WB001check(content)

----------------------------------------------------------------------------
(* checker.ts: ComplianceChecker *)

Range(s) == {s[i] : i \in DOMAIN s}

\* variant: the pilot-log flag guards the airworthiness catalog as well
loadRulesWrongFlag(opts) ==
    (IF opts.checkMaintenanceLogs THEN maintenanceLogRules ELSE << >>)
    \o (IF opts.checkPilotLogs THEN pilotLogRules ELSE << >>)
    \o (IF opts.checkPilotLogs THEN airworthinessRules ELSE << >>)
    \o (IF opts.checkWeightBalance THEN weightBalanceRules ELSE << >>)

\* loadRules: push the catalog of every category whose flag is set
loadRules(opts) ==
    (IF opts.checkMaintenanceLogs THEN maintenanceLogRules ELSE << >>)
    \o (IF opts.checkPilotLogs THEN pilotLogRules ELSE << >>)
    \o (IF opts.checkAirworthiness THEN airworthinessRules ELSE << >>)
    \o (IF opts.checkWeightBalance THEN weightBalanceRules ELSE << >>)

\* the workspace the action runs in, and what glob returns for a pattern
FileNames == {"logs/a.md", "logs/b.md"}
Patterns == {"logs/*.md", "logs/a.md", "**/*.txt"}

glob(pattern) ==
    CASE pattern = "logs/*.md" -> <<"logs/a.md", "logs/b.md">>
      [] pattern = "logs/a.md" -> <<"logs/a.md">>
      [] pattern = "logs/b.md" -> <<"logs/b.md">>
      [] OTHER -> << >>

\* [...new Set(allFiles)]: first occurrences, in insertion order
RECURSIVE NewSet(_, _)
NewSet(allFiles, acc) ==
    IF allFiles = << >> THEN acc
    ELSE NewSet(Tail(allFiles),
                IF Head(allFiles) \in Range(acc) THEN acc ELSE Append(acc, Head(allFiles)))

RECURSIVE AllMatches(_)
AllMatches(patterns) ==
    IF patterns = << >> THEN << >>
    ELSE glob(Head(patterns)) \o AllMatches(Tail(patterns))

\* variant: allFiles returned as collected
findFilesNoSet(patterns) == AllMatches(patterns)

findFiles(patterns) == NewSet(AllMatches(patterns), << >>)

\* variant: a file that cannot be read counts as empty
readFileSyncLenient(filename) ==
    IF disk[filename].readable THEN disk[filename]
    ELSE [readable |-> TRUE, lines |-> << >>, raises |-> {}]

\* fs.readFileSync(filename, 'utf-8'): the document, or a throw (readable FALSE)
readFileSync(filename) == disk[filename]

\* variant: info violations counted as warnings
determineStatusInfoWarns(violations) ==
    LET hasErrors == \E i \in DOMAIN violations : violations[i].severity = "error"
        hasWarnings == \E i \in DOMAIN violations : violations[i].severity # "error"
    IN  IF hasErrors THEN "FAIL"
        ELSE IF hasWarnings THEN "WARNING"
        ELSE "PASS"

\* determineStatus
determineStatus(violations) ==
    LET hasErrors == \E i \in DOMAIN violations : violations[i].severity = "error"
        hasWarnings == \E i \in DOMAIN violations : violations[i].severity = "warning"
    IN  IF hasErrors THEN "FAIL"
        ELSE IF hasWarnings THEN "WARNING"
        ELSE "PASS"

\* variant: no try/catch around rule.check
RunRuleNoCatch(rule, content, today) ==
    IF rule.id \in content.raises
    THEN [threw |-> TRUE, violations |-> << >>]
    ELSE [threw |-> FALSE, violations |-> check(rule.id, content, today)]

\* the body of checkFile's loop: try { rule.check } catch { console.error }.
\* content.raises names the rules whose check throws on this content.
RunRule(rule, content, today) ==
    IF rule.id \in content.raises
    THEN [threw |-> FALSE, violations |-> << >>]
    ELSE [threw |-> FALSE, violations |-> check(rule.id, content, today)]

\* variant: violations.unshift(...ruleViolations)
RECURSIVE RunRulesUnshift(_, _, _, _)
RunRulesUnshift(rs, content, today, violations) ==
    IF rs = << >> THEN [threw |-> FALSE, violations |-> violations]
    ELSE LET r == RunRule(Head(rs), content, today)
         IN  IF r.threw THEN [threw |-> TRUE, violations |-> violations]
             ELSE RunRulesUnshift(Tail(rs), content, today, r.violations \o violations)

\* for (const rule of this.rules): violations.push(...ruleViolations)
RECURSIVE RunRules(_, _, _, _)
RunRules(rs, content, today, violations) ==
    IF rs = << >> THEN [threw |-> FALSE, violations |-> violations]
    ELSE LET r == RunRule(Head(rs), content, today)
         IN  IF r.threw THEN [threw |-> TRUE, violations |-> violations]
             ELSE RunRules(Tail(rs), content, today, violations \o r.violations)

\* checkFile: threw is TRUE when an exception leaves the method
checkFile(rs, filename, today) ==
    LET content == readFileSync(filename)
        none == [filename |-> filename, violations |-> << >>, status |-> "PASS"]
    IN  IF ~content.readable THEN [threw |-> TRUE, result |-> none]
        ELSE LET out == RunRules(rs, content, today, << >>)
             IN  IF out.threw THEN [threw |-> TRUE, result |-> none]
                 ELSE [threw |-> FALSE,
                       result |-> [filename |-> filename,
                                   violations |-> out.violations,
                                   status |-> determineStatus(out.violations)]]

\* new Date() at rules.ts line 285 is reached for this content
ReadsClock(rs, content) ==
    /\ content.readable
    /\ \E i \in DOMAIN rs : rs[i].id = "INSP-001"
    /\ "INSP-001" \notin content.raises
    /\ Test(annualPattern, content)
    /\ Match(content, datePattern) # None

\* generateReport
RECURSIVE SumViolations(_)
SumViolations(results) ==
    IF results = << >> THEN 0
    ELSE Len(Head(results).violations) + SumViolations(Tail(results))

\* variant: only the first violation of each file is tallied
RECURSIVE CountSeverityFirst(_, _)
CountSeverityFirst(results, severity) ==
    IF results = << >> THEN 0
    ELSE (IF Head(results).violations # << >>
             /\ Head(results).violations[1].severity = severity THEN 1 ELSE 0)
         + CountSeverityFirst(Tail(results), severity)

RECURSIVE CountSeverity(_, _)
CountSeverity(results, severity) ==
    IF results = << >> THEN 0
    ELSE Len(SelectSeq(Head(results).violations, LAMBDA v : v.severity = severity))
         + CountSeverity(Tail(results), severity)

CountStatus(results, status) == Len(SelectSeq(results, LAMBDA r : r.status = status))

generateReport(results) ==
    LET totalViolations == SumViolations(results)
        violationsBySeverity == [error |-> CountSeverity(results, "error"),
                                 warning |-> CountSeverity(results, "warning"),
                                 info |-> CountSeverity(results, "info")]
        failedFiles == CountStatus(results, "FAIL")
        warningFiles == CountStatus(results, "WARNING")
        passedFiles == CountStatus(results, "PASS")
    IN  [totalFiles |-> Len(results),
         filesChecked |-> Len(results),
         totalViolations |-> totalViolations,
         violationsBySeverity |-> violationsBySeverity,
         fileResults |-> results,
         summary |-> [filesChecked |-> Len(results), passed |-> passedFiles,
                      warnings |-> warningFiles, failed |-> failedFiles,
                      totalViolations |-> totalViolations,
                      errors |-> violationsBySeverity.error,
                      warningCount |-> violationsBySeverity.warning,
                      info |-> violationsBySeverity.info]]

\* generateMarkdownReport: the markdown text as its sequence of lines.
\* Icons: "[x]" is the cross mark, "[!]" the warning sign, "[i]" the info sign.
Line(t, text, ruleId, parts, n) ==
    [t |-> t, text |-> text, ruleId |-> ruleId, parts |-> parts, n |-> n]

Blank == Line("blank", "", "", << >>, 0)

\* one violation: the icon line, the regulation line, the suggestion line
\* if (v.suggestion), a blank line
ViolationLines(icon, v) ==
    << Line("violation", icon, v.ruleId, v.message, 0),
       Line("regulation", v.regulation, "", << >>, 0) >>
    \o (IF v.suggestion # << >>
        THEN << Line("suggestion", "", "", v.suggestion, 0) >>
        ELSE << >>)
    \o << Blank >>

\* the icon chosen in the failed-files loop
FailedIcon(v) ==
    IF v.severity = "error" THEN "[x]"
    ELSE IF v.severity = "warning" THEN "[!]"
    ELSE "[i]"

\* the icon written in the warning-files loop
WarningIcon(v) == "[!]"

RECURSIVE FailedViolations(_)
FailedViolations(violations) ==
    IF violations = << >> THEN << >>
    ELSE ViolationLines(FailedIcon(Head(violations)), Head(violations))
         \o FailedViolations(Tail(violations))

RECURSIVE WarningViolations(_)
WarningViolations(violations) ==
    IF violations = << >> THEN << >>
    ELSE ViolationLines(WarningIcon(Head(violations)), Head(violations))
         \o WarningViolations(Tail(violations))

RECURSIVE FailedFilesLines(_)
FailedFilesLines(failedFiles) ==
    IF failedFiles = << >> THEN << >>
    ELSE << Line("h3", Head(failedFiles).filename, "", << >>, 0), Blank >>
         \o FailedViolations(Head(failedFiles).violations)
         \o FailedFilesLines(Tail(failedFiles))

RECURSIVE WarningFilesLines(_)
WarningFilesLines(warningFiles) ==
    IF warningFiles = << >> THEN << >>
    ELSE << Line("h3", Head(warningFiles).filename, "", << >>, 0), Blank >>
         \o WarningViolations(Head(warningFiles).violations)
         \o WarningFilesLines(Tail(warningFiles))

PassedFilesLines(passedFiles) ==
    [i \in 1..Len(passedFiles) |-> Line("item", passedFiles[i].filename, "", << >>, 0)]

\* variant: the filter for passed files lets every file without errors through
FilterStatusLoose(results, status) ==
    SelectSeq(results, LAMBDA r : r.status = status
                                  \/ (status = "PASS" /\ r.status = "WARNING"))

\* report.fileResults.filter(r => r.status === status)
FilterStatus(results, status) == SelectSeq(results, LAMBDA r : r.status = status)

\* variant: the counts are taken from the file results listed
SummaryLinesRecount(rep) ==
    << Line("h2", "Summary", "", << >>, 0), Blank,
       Line("count", "Files Checked", "", << >>, Len(rep.fileResults)),
       Line("count", "Total Violations", "", << >>, SumViolations(rep.fileResults)),
       Line("count", "Errors", "", << >>, CountSeverity(rep.fileResults, "error")),
       Line("count", "Warnings", "", << >>, CountSeverity(rep.fileResults, "warning")),
       Line("count", "Info", "", << >>, CountSeverity(rep.fileResults, "info")), Blank >>

\* the summary block: the five counts as stored in the report
SummaryLines(rep) ==
    << Line("h2", "Summary", "", << >>, 0), Blank,
       Line("count", "Files Checked", "", << >>, rep.filesChecked),
       Line("count", "Total Violations", "", << >>, rep.totalViolations),
       Line("count", "Errors", "", << >>, rep.violationsBySeverity.error),
       Line("count", "Warnings", "", << >>, rep.violationsBySeverity.warning),
       Line("count", "Info", "", << >>, rep.violationsBySeverity.info), Blank >>

generateMarkdownReport(rep) ==
    LET failedFiles == FilterStatus(rep.fileResults, "FAIL")
        warningFiles == FilterStatus(rep.fileResults, "WARNING")
        passedFiles == FilterStatus(rep.fileResults, "PASS")
    IN  << Line("title", "Aviation Compliance Report", "", << >>, 0), Blank >>
        \o SummaryLines(rep)
        \o (IF Len(failedFiles) > 0
            THEN << Line("h2", "Failed Files", "", << >>, 0), Blank >>
                 \o FailedFilesLines(failedFiles)
            ELSE << >>)
        \o (IF Len(warningFiles) > 0
            THEN << Line("h2", "Files with Warnings", "", << >>, 0), Blank >>
                 \o WarningFilesLines(warningFiles)
            ELSE << >>)
        \o (IF Len(passedFiles) > 0
            THEN << Line("h2", "Passed Files", "", << >>, 0), Blank >>
                 \o PassedFilesLines(passedFiles) \o << Blank >>
            ELSE << >>)
        \o << Line("hr", "---", "", << >>, 0), Blank,
              Line("footer", "Generated by Aviation Compliance Checker", "", << >>, 0) >>

----------------------------------------------------------------------------
(* The documents of the workspace *)

Doc(lines, raises) == [readable |-> TRUE, lines |-> lines, raises |-> raises]
Unreadable == [readable |-> FALSE, lines |-> << >>, raises |-> {}]

MaintenanceLog ==
    Doc(<<"Date: 10/31/2025", "Aircraft: N12345", "Description: Oil change",
          "Signature: John Smith", "Approved for return to service",
          "Annual inspection performed", "per 14 CFR 43 Appendix D",
          "AD 2023-15-09 inspected">>, {})

PilotLog ==
    Doc(<<"Date: 01/15/2024", "Aircraft: N12345", "Registration: N54321",
          "Total Time: 2.5", "Night cross country", "Instrument approach flown",
          "ILS RWY 36C">>, {})

WeightBalance ==
    Doc(<<"Weight and Balance on file", "Empty Weight: 1650", "CG: 39.5">>, {})

EmptyFile == Doc(<< >>, {})

\* a log on which the checks of MAINT-002 and AROW-001 throw
RaisingLog ==
    Doc(<<"Date: 01/15/2024", "Aircraft: N12345", "Description: Oil change",
          "Annual inspection performed", "AD 2023-15-09 inspected">>,
        {"MAINT-002", "AROW-001"})

Docs == {MaintenanceLog, PilotLog, WeightBalance, EmptyFile, RaisingLog}

\* 365 days after local midnight of 10/31/2025
Now0 == (20392 + 365) * 24

PatternLists == UNION {[1..n -> Patterns] : n \in 1..MaxPatterns}

----------------------------------------------------------------------------
(* run(): one invocation of the action *)

Init ==
    /\ options \in [checkMaintenanceLogs : BOOLEAN, checkPilotLogs : BOOLEAN,
                    checkAirworthiness : BOOLEAN, checkWeightBalance : BOOLEAN]
    /\ failOnViolation \in BOOLEAN
    /\ filePatterns \in PatternLists
    /\ disk \in [FileNames -> Docs \cup {Unreadable}]
    /\ now = Now0
    /\ pc = "start"
    /\ rules = << >>
    /\ files = << >>
    /\ fileResults = << >>
    /\ report = << >>
    /\ markdown = << >>
    /\ reportFile = << >>
    /\ outputs = << >>
    /\ failed = FALSE
    /\ policyLog = None
    /\ runs = 1
    /\ prevReport = << >>
    /\ clockReads = << {}, {} >>

\* new ComplianceChecker(options)
Construct ==
    /\ pc = "start"
    /\ rules' = loadRules(options)
    /\ pc' = "find"
    /\ UNCHANGED <<options, failOnViolation, filePatterns, disk, now, files,
                   fileResults, report, markdown, reportFile, outputs, failed,
                   policyLog, runs, prevReport, clockReads>>

\* const fileResults = [] of checkFiles
NewFileResults == << >>

\* checkFiles: const files = await this.findFiles(filePatterns)
FindFiles ==
    /\ pc = "find"
    /\ files' = findFiles(filePatterns)
    /\ fileResults' = NewFileResults
    /\ pc' = "check"
    /\ UNCHANGED <<options, failOnViolation, filePatterns, disk, now, rules,
                   report, markdown, reportFile, outputs, failed, policyLog,
                   runs, prevReport, clockReads>>

NextFile == files[Len(fileResults) + 1]

\* checkFiles: one turn of the loop, checkFile returns
CheckFile ==
    /\ pc = "check"
    /\ Len(fileResults) < Len(files)
    /\ LET r == checkFile(rules, NextFile, now)
       IN  /\ ~r.threw
           /\ fileResults' = Append(fileResults, r.result)
    /\ clockReads' = IF ReadsClock(rules, readFileSync(NextFile))
                     THEN <<clockReads[1], clockReads[2] \cup {now}>>
                     ELSE clockReads
    /\ UNCHANGED <<options, failOnViolation, filePatterns, disk, now, pc, rules,
                   files, report, markdown, reportFile, outputs, failed,
                   policyLog, runs, prevReport>>

\* checkFiles: checkFile throws; the exception leaves checkFiles and reaches
\* the catch of run(), which calls core.setFailed
CheckFileThrows ==
    /\ pc = "check"
    /\ Len(fileResults) < Len(files)
    /\ checkFile(rules, NextFile, now).threw
    /\ failed' = TRUE
    /\ policyLog' = "Action failed"
    /\ pc' = "done"
    /\ UNCHANGED <<options, failOnViolation, filePatterns, disk, now, rules,
                   files, fileResults, report, markdown, reportFile, outputs,
                   runs, prevReport, clockReads>>

\* checkFiles: return this.generateReport(fileResults)
GenerateReport ==
    /\ pc = "check"
    /\ Len(fileResults) = Len(files)
    /\ report' = << generateReport(fileResults) >>
    /\ pc' = "render"
    /\ UNCHANGED <<options, failOnViolation, filePatterns, disk, now, rules,
                   files, fileResults, markdown, reportFile, outputs, failed,
                   policyLog, runs, prevReport, clockReads>>

\* const markdownReport = checker.generateMarkdownReport(report)
GenerateMarkdownReport ==
    /\ pc = "render"
    /\ markdown' = generateMarkdownReport(report[1])
    /\ pc' = "write"
    /\ UNCHANGED <<options, failOnViolation, filePatterns, disk, now, rules,
                   files, fileResults, report, reportFile, outputs, failed,
                   policyLog, runs, prevReport, clockReads>>

\* fs.writeFileSync(reportPath, markdownReport)
WriteReport ==
    /\ pc = "write"
    /\ reportFile' = markdown
    /\ pc' = "output"
    /\ UNCHANGED <<options, failOnViolation, filePatterns, disk, now, rules,
                   files, fileResults, report, markdown, outputs, failed,
                   policyLog, runs, prevReport, clockReads>>

\* variant: compliance-status is FAIL as soon as there is any violation
SetOutputsAnyViolation ==
    /\ pc = "output"
    /\ outputs' = << [violationsFound |-> report[1].totalViolations,
                      complianceStatus |->
                          IF report[1].totalViolations > 0
                          THEN "FAIL" ELSE "PASS",
                      reportPath |-> "aviation-compliance-report.md"] >>
    /\ pc' = "policy"
    /\ UNCHANGED <<options, failOnViolation, filePatterns, disk, now, rules,
                   files, fileResults, report, markdown, reportFile, failed,
                   policyLog, runs, prevReport, clockReads>>

\* the three core.setOutput calls
SetOutputs ==
    /\ pc = "output"
    /\ outputs' = << [violationsFound |-> report[1].totalViolations,
                      complianceStatus |->
                          IF report[1].violationsBySeverity.error > 0
                          THEN "FAIL" ELSE "PASS",
                      reportPath |-> "aviation-compliance-report.md"] >>
    /\ pc' = "policy"
    /\ UNCHANGED <<options, failOnViolation, filePatterns, disk, now, rules,
                   files, fileResults, report, markdown, reportFile, failed,
                   policyLog, runs, prevReport, clockReads>>

\* variant: any violation fails the run
PolicyBranchAnyViolation(fail, rep) ==
    IF fail /\ rep.totalViolations > 0 THEN "setFailed"
    ELSE IF rep.violationsBySeverity.error = 0 /\ rep.totalViolations = 0
         THEN "all passed"
    ELSE "not failing"

\* the branch at the end of run()
PolicyBranch(fail, rep) ==
    IF fail /\ rep.violationsBySeverity.error > 0 THEN "setFailed"
    ELSE IF rep.violationsBySeverity.error = 0 /\ rep.totalViolations = 0
         THEN "all passed"
    ELSE "not failing"

FailPolicy ==
    /\ pc = "policy"
    /\ policyLog' = PolicyBranch(failOnViolation, report[1])
    /\ failed' = (policyLog' = "setFailed")
    /\ pc' = "done"
    /\ UNCHANGED <<options, failOnViolation, filePatterns, disk, now, rules,
                   files, fileResults, report, markdown, reportFile, outputs,
                   runs, prevReport, clockReads>>

Next ==
    \/ Construct
    \/ FindFiles
    \/ CheckFile
    \/ CheckFileThrows
    \/ GenerateReport
    \/ GenerateMarkdownReport
    \/ WriteReport
    \/ SetOutputs
    \/ FailPolicy

Spec == Init /\ [][Next]_vars

----------------------------------------------------------------------------
(* Repeated invocations on the same workspace, with the clock advancing *)

\* run() is started again, in a new process (a new checker) or, for a
\* caller that keeps the ComplianceChecker, with checkFiles called again
Rerun ==
    /\ pc = "done"
    /\ runs < MaxRuns
    /\ \E sameChecker \in BOOLEAN :
          /\ pc' = IF sameChecker THEN "find" ELSE "start"
          /\ rules' = IF sameChecker THEN rules ELSE << >>
    /\ runs' = runs + 1
    /\ prevReport' = report
    /\ clockReads' = << clockReads[2], {} >>
    /\ report' = << >>
    /\ markdown' = << >>
    /\ reportFile' = << >>
    /\ outputs' = << >>
    /\ failed' = FALSE
    /\ policyLog' = None
    /\ UNCHANGED <<options, failOnViolation, filePatterns, disk, now, files,
                   fileResults>>

\* half a day passes.  The clock is read only by checkFile, so a tick at any
\* other position is the same as a tick on entry to the loop.
Tick ==
    /\ pc = "check"
    /\ now < Now0 + MaxTicks * 12
    /\ now' = now + 12
    /\ UNCHANGED <<options, failOnViolation, filePatterns, disk, pc, rules,
                   files, fileResults, report, markdown, reportFile, outputs,
                   failed, policyLog, runs, prevReport, clockReads>>

InitTwice ==
    /\ Init
    /\ filePatterns = <<"logs/*.md">>
    /\ failOnViolation = FALSE

NextTwice == Next \/ Rerun \/ Tick

SpecTwice == InitTwice /\ [][NextTwice]_vars

----------------------------------------------------------------------------
(* One invocation with the clock advancing between the files *)

\* input patterns that also name the second file alone, so that the matches
\* can begin with it
OrderPatternLists ==
    UNION {[1..n -> Patterns \cup {"logs/b.md"}] : n \in 1..MaxPatterns}

InitOrder ==
    /\ options \in {o \in [checkMaintenanceLogs : BOOLEAN, checkPilotLogs : BOOLEAN,
                             checkAirworthiness : BOOLEAN, checkWeightBalance : BOOLEAN] :
                        /\ o.checkMaintenanceLogs = o.checkWeightBalance
                        /\ o.checkPilotLogs = o.checkAirworthiness}
    /\ failOnViolation = FALSE
    /\ filePatterns \in OrderPatternLists
    /\ disk \in [FileNames -> Docs \cup {Unreadable}]
    /\ now = Now0
    /\ pc = "start"
    /\ rules = << >>
    /\ files = << >>
    /\ fileResults = << >>
    /\ report = << >>
    /\ markdown = << >>
    /\ reportFile = << >>
    /\ outputs = << >>
    /\ failed = FALSE
    /\ policyLog = None
    /\ runs = 1
    /\ prevReport = << >>
    /\ clockReads = << {}, {} >>

NextOrder == Next \/ Tick

SpecOrder == InitOrder /\ [][NextOrder]_vars

----------------------------------------------------------------------------
(* determineStatus, generateReport and generateMarkdownReport applied to   *)
(* arbitrary violation lists (the ComplianceViolation type admits severity *)
(* info and an absent suggestion, which no catalog rule produces)          *)

SampleError ==
    [ruleId |-> "MAINT-002", message |-> <<"Missing return to service statement">>,
     severity |-> "error", regulation |-> "14 CFR 43.9(a)(4)",
     suggestion |-> <<"Include \"Approved for return to service\" or equivalent statement">>]

SampleWarning ==
    [ruleId |-> "CUSTOM-W", message |-> <<"Custom warning">>,
     severity |-> "warning", regulation |-> "14 CFR 39", suggestion |-> << >>]

SampleInfo ==
    [ruleId |-> "CUSTOM-I", message |-> <<"Custom note">>,
     severity |-> "info", regulation |-> "14 CFR 91.9",
     suggestion |-> <<"Consider adding a note">>]

SampleViolations == {SampleError, SampleWarning, SampleInfo}

\* every list of at most two sample violations
PureViolationLists ==
    {<< >>} \cup {<<v>> : v \in SampleViolations}
            \cup {<<v, w>> : v \in SampleViolations, w \in SampleViolations}

PureFileNames == <<"f1.md", "f2.md", "f3.md", "f4.md", "f5.md">>

InitPure ==
    /\ options = [checkMaintenanceLogs |-> FALSE, checkPilotLogs |-> FALSE,
                  checkAirworthiness |-> FALSE, checkWeightBalance |-> FALSE]
    /\ failOnViolation = FALSE
    /\ filePatterns = <<"**/*.txt">>
    /\ disk = [f \in FileNames |-> EmptyFile]
    /\ now = Now0
    /\ pc = "check"
    /\ rules = << >>
    /\ files \in {SubSeq(PureFileNames, 1, n) : n \in 0..MaxPureFiles}
    /\ fileResults = << >>
    /\ report = << >>
    /\ markdown = << >>
    /\ reportFile = << >>
    /\ outputs = << >>
    /\ failed = FALSE
    /\ policyLog = None
    /\ runs = 1
    /\ prevReport = << >>
    /\ clockReads = << {}, {} >>

\* the end of checkFile for a file whose rules collected these violations
CollectFile ==
    /\ pc = "check"
    /\ Len(fileResults) < Len(files)
    /\ \E violations \in PureViolationLists :
          fileResults' = Append(fileResults,
                                [filename |-> NextFile,
                                 violations |-> violations,
                                 status |-> determineStatus(violations)])
    /\ UNCHANGED <<options, failOnViolation, filePatterns, disk, now, pc, rules,
                   files, report, markdown, reportFile, outputs, failed,
                   policyLog, runs, prevReport, clockReads>>

NextPure == CollectFile \/ GenerateReport \/ GenerateMarkdownReport

SpecPure == InitPure /\ [][NextPure]_vars

----------------------------------------------------------------------------
(* One document checked by all ten rules: the documents are all selections *)
(* of the lines the rules of a category look for, and, for the inspection  *)
(* date, all arrangements of the trigger line and the date-shaped lines    *)

MaxRenderFiles == 2

\* the lines of a list at the positions S, in their order
Pick(lines, S) ==
    LET at(k) == CHOOSE i \in S : Cardinality({j \in S : j <= i}) = k
    IN  [k \in 1..Cardinality(S) |-> lines[at(k)]]

SubDocs(lines) == {Doc(Pick(lines, S), {}) : S \in SUBSET DOMAIN lines}

\* the lines of S each at most once, in any order
Arrangements(S) ==
    {a \in UNION {[1..n -> S] : n \in 0..Cardinality(S)} :
        \A i, j \in DOMAIN a : a[i] = a[j] => i = j}

MaintenanceLines ==
    <<"Description: Oil change", "Date: 10/31/2025", "Aircraft: N12345",
      "Signature: John Smith", "Approved for return to service",
      "Annual inspection performed", "per 14 CFR 43 Appendix D",
      "AD 2023-15-09 inspected", "Complied with service bulletin">>

PilotLines ==
    <<"Date: 01/15/2024", "Aircraft: N12345", "Registration: N54321",
      "Total Time: 2.5", "Night cross country", "Night Time: 1.2",
      "Instrument approach flown", "ILS RWY 36C">>

AirworthinessLines ==
    <<"Airworthiness Certificate on board", "Registration: N54321", "POH on board",
      "Weight and Balance on file", "Empty Weight: 1650", "CG: 39.5",
      "Useful Load: 870">>

InspectionLines ==
    {"Annual inspection performed", "Date: 10/31/2025", "Date: 01/15/2024",
     "Date: 12/31/2027", "AD 2023-15-09 inspected"}

InspectionDocs == {Doc(a, {}) : a \in Arrangements(InspectionLines)}

RuleDocs ==
    SubDocs(MaintenanceLines) \cup SubDocs(PilotLines)
        \cup SubDocs(AirworthinessLines) \cup InspectionDocs \cup {Unreadable}

AllEnabled ==
    [checkMaintenanceLogs |-> TRUE, checkPilotLogs |-> TRUE,
     checkAirworthiness |-> TRUE, checkWeightBalance |-> TRUE]

InitRules ==
    /\ options = AllEnabled
    /\ failOnViolation = FALSE
    /\ filePatterns = <<"logs/a.md">>
    /\ \E d \in RuleDocs : disk = [f \in FileNames |-> IF f = "logs/a.md" THEN d ELSE EmptyFile]
    /\ now = Now0
    /\ pc = "start"
    /\ rules = << >>
    /\ files = << >>
    /\ fileResults = << >>
    /\ report = << >>
    /\ markdown = << >>
    /\ reportFile = << >>
    /\ outputs = << >>
    /\ failed = FALSE
    /\ policyLog = None
    /\ runs = 1
    /\ prevReport = << >>
    /\ clockReads = << {}, {} >>

NextRules == Next \/ Tick

SpecRules == InitRules /\ [][NextRules]_vars

----------------------------------------------------------------------------
(* generateMarkdownReport called with any ComplianceReport: the method is  *)
(* public and takes the report as its argument, so the report need not be  *)
(* the one generateReport returned; here a caller has dropped file results *)
(* from the end of report.fileResults before rendering                     *)

ResultLists ==
    UNION {[1..n -> {[filename |-> "f.md", violations |-> vs,
                      status |-> determineStatus(vs)] : vs \in PureViolationLists}]
           : n \in 0..MaxRenderFiles}

\* the file results named after their position
Named(results) ==
    [i \in DOMAIN results |-> [results[i] EXCEPT !.filename = PureFileNames[i]]]

RenderReports ==
    UNION {{[generateReport(Named(rs)) EXCEPT !.fileResults = SubSeq(Named(rs), 1, n)]
               : n \in 0..Len(rs)} : rs \in ResultLists}

InitRender ==
    /\ options = AllEnabled
    /\ failOnViolation = FALSE
    /\ filePatterns = <<"**/*.txt">>
    /\ disk = [f \in FileNames |-> EmptyFile]
    /\ now = Now0
    /\ pc = "render"
    /\ rules = loadRules(options)
    /\ \E r \in RenderReports :
          /\ report = << r >>
          /\ fileResults = r.fileResults
          /\ files = [i \in DOMAIN r.fileResults |-> r.fileResults[i].filename]
    /\ markdown = << >>
    /\ reportFile = << >>
    /\ outputs = << >>
    /\ failed = FALSE
    /\ policyLog = None
    /\ runs = 1
    /\ prevReport = << >>
    /\ clockReads = << {}, {} >>

NextRender == GenerateMarkdownReport

SpecRender == InitRender /\ [][NextRender]_vars

----------------------------------------------------------------------------
(* Properties *)

Severities(violations) == {violations[j].severity : j \in DOMAIN violations}

\* C1: every file result's status is FAIL exactly when one of its violations
\* has severity error, WARNING exactly when none has severity error and one
\* has severity warning, and PASS otherwise (only info violations, or none).
C1_StatusFollowsSeverities ==
    \A i \in DOMAIN fileResults :
        LET sevs == Severities(fileResults[i].violations)
            status == fileResults[i].status
        IN  /\ status \in {"FAIL", "WARNING", "PASS"}
            /\ (status = "FAIL") <=> ("error" \in sevs)
            /\ (status = "WARNING") <=> ("error" \notin sevs /\ "warning" \in sevs)
            /\ (status = "PASS") <=> (sevs \subseteq {"info"})

\* a PASS file with info violations only beside a WARNING file that mixes
\* warning and info
C1_Witness ==
    /\ \E i \in DOMAIN fileResults :
          /\ Severities(fileResults[i].violations) = {"info"}
          /\ fileResults[i].status = "PASS"
    /\ \E i \in DOMAIN fileResults :
          /\ Severities(fileResults[i].violations) = {"warning", "info"}
          /\ fileResults[i].status = "WARNING"

\* the places <<file index, violation index>> of the violations of a result list
ViolationSlots(results) ==
    UNION {{<<i, j>> : j \in DOMAIN results[i].violations} : i \in DOMAIN results}

SlotsOfSeverity(results, severity) ==
    {s \in ViolationSlots(results) : results[s[1]].violations[s[2]].severity = severity}

\* C2: in every report, totalViolations is the number of violations of all
\* file results together, each per-severity count is the number of violations
\* of that severity, and the three counts add up to totalViolations.
C2_TotalsAgree ==
    report # << >> =>
        LET r == report[1]
        IN  /\ r.totalViolations = Cardinality(ViolationSlots(r.fileResults))
            /\ r.totalViolations = r.violationsBySeverity.error
                                   + r.violationsBySeverity.warning
                                   + r.violationsBySeverity.info
            /\ r.violationsBySeverity.error
                   = Cardinality(SlotsOfSeverity(r.fileResults, "error"))
            /\ r.violationsBySeverity.warning
                   = Cardinality(SlotsOfSeverity(r.fileResults, "warning"))
            /\ r.violationsBySeverity.info
                   = Cardinality(SlotsOfSeverity(r.fileResults, "info"))

\* a report over two files, each with several violations, errors and warnings
C2_Witness ==
    /\ report # << >>
    /\ Len(report[1].fileResults) = 2
    /\ \A i \in 1..2 : Len(report[1].fileResults[i].violations) >= 2
    /\ report[1].violationsBySeverity.error > 0
    /\ report[1].violationsBySeverity.warning > 1

CategoryEnabled(category) ==
    CASE category = "maintenance" -> options.checkMaintenanceLogs
      [] category = "pilot-log" -> options.checkPilotLogs
      [] category = "airworthiness" -> options.checkAirworthiness
      [] category = "weight-balance" -> options.checkWeightBalance

RuleOf(ruleId) == CHOOSE r \in Range(allRules) : r.id = ruleId

\* C3: once the checker is constructed its rule list is the concatenated
\* catalog restricted to the rules of enabled categories, in catalog order,
\* no id twice; no violation of any file result carries the id of a rule of
\* a disabled category.
C3_RulesAreEnabledCatalogs ==
    pc # "start" =>
        /\ rules = SelectSeq(allRules, LAMBDA r : CategoryEnabled(r.category))
        /\ \A i, j \in DOMAIN rules : rules[i].id = rules[j].id => i = j
        /\ \A s \in ViolationSlots(fileResults) :
              CategoryEnabled(RuleOf(fileResults[s[1]].violations[s[2]].ruleId).category)
        /\ report # << >> =>
              \A s \in ViolationSlots(report[1].fileResults) :
                  CategoryEnabled(
                      RuleOf(report[1].fileResults[s[1]].violations[s[2]].ruleId).category)

\* a finished run with pilot-log and weight-balance enabled, the other two
\* disabled, on documents that violate rules of all four categories
C3_Witness ==
    /\ pc = "done"
    /\ report # << >>
    /\ options = [checkMaintenanceLogs |-> FALSE, checkPilotLogs |-> TRUE,
                  checkAirworthiness |-> FALSE, checkWeightBalance |-> TRUE]
    /\ Len(rules) = 4
    /\ \E i \in DOMAIN report[1].fileResults :
          /\ disk[report[1].fileResults[i].filename] = WeightBalance
          /\ report[1].fileResults[i].violations # << >>
          /\ check("AROW-001", WeightBalance, now) # << >>
          /\ check("MAINT-001", WeightBalance, now) # << >>

WithRuleId(violations, ruleId) == SelectSeq(violations, LAMBDA v : v.ruleId = ruleId)

Raises(filename, ruleId) == ruleId \in disk[filename].raises

\* C4: a rule whose check throws on a document contributes nothing for that
\* document and stops nothing: in every file result the violations of each
\* configured rule are what its check returns (none if it throws), the status
\* is derived from them, a run ends without a report only if a matched file
\* cannot be read, and a report lists every matched file.
C4_ThrowingRuleIsSkipped ==
    /\ \A i \in DOMAIN fileResults : \A k \in DOMAIN rules :
          WithRuleId(fileResults[i].violations, rules[k].id)
              = IF Raises(files[i], rules[k].id) THEN << >>
                ELSE check(rules[k].id, disk[files[i]], now)
    /\ \A i \in DOMAIN fileResults :
          /\ fileResults[i].filename = files[i]
          /\ (fileResults[i].status = "FAIL")
                 <=> ("error" \in Severities(fileResults[i].violations))
          /\ (fileResults[i].status = "PASS")
                 <=> (Severities(fileResults[i].violations) \subseteq {"info"})
    /\ (pc = "done" /\ report = << >>) =>
          \E i \in DOMAIN files : ~disk[files[i]].readable
    /\ report # << >> =>
          /\ report[1].fileResults = fileResults
          /\ Len(fileResults) = Len(files)

\* a report of two files; on the first a rule throws, the rule before it and
\* a rule after it have violations there, and the second file has violations
C4_Witness ==
    /\ report # << >>
    /\ Len(files) = 2
    /\ \E k \in DOMAIN rules :
          /\ Raises(files[1], rules[k].id)
          /\ \E b \in 1..(k - 1) :
                WithRuleId(report[1].fileResults[1].violations, rules[b].id) # << >>
          /\ \E a \in (k + 1)..Len(rules) :
                WithRuleId(report[1].fileResults[1].violations, rules[a].id) # << >>
    /\ report[1].fileResults[2].violations # << >>

Matched == UNION {Range(glob(filePatterns[k])) : k \in DOMAIN filePatterns}

ResultsFor(results, filename) == {i \in DOMAIN results : results[i].filename = filename}

RECURSIVE ViolationsOfFiles(_, _)
ViolationsOfFiles(results, names) ==
    IF names = {} THEN 0
    ELSE LET f == CHOOSE n \in names : TRUE
             i == CHOOSE j \in ResultsFor(results, f) : TRUE
         IN  Len(results[i].violations) + ViolationsOfFiles(results, names \ {f})

\* C5: a file name matched several times by the input patterns is checked
\* once: the list of files to check and the report's file results name every
\* matched file exactly once, filesChecked is the number of distinct matched
\* names, and the totals count each file's violations once.
C5_MatchedFilesCheckedOnce ==
    /\ pc \notin {"start", "find"} =>
          /\ Range(files) = Matched
          /\ \A i, j \in DOMAIN files : files[i] = files[j] => i = j
    /\ report # << >> =>
          LET r == report[1]
          IN  /\ \A f \in Matched : Cardinality(ResultsFor(r.fileResults, f)) = 1
              /\ Len(r.fileResults) = Cardinality(Matched)
              /\ r.filesChecked = Cardinality(Matched)
              /\ r.totalViolations = ViolationsOfFiles(r.fileResults, Matched)
              /\ r.violationsBySeverity.error + r.violationsBySeverity.warning
                     + r.violationsBySeverity.info
                 = ViolationsOfFiles(r.fileResults, Matched)

\* a report for patterns that both match logs/a.md, which has violations
C5_Witness ==
    /\ report # << >>
    /\ filePatterns = <<"logs/*.md", "logs/a.md">>
    /\ report[1].filesChecked = 2
    /\ \E i \in DOMAIN report[1].fileResults :
          /\ report[1].fileResults[i].filename = "logs/a.md"
          /\ report[1].fileResults[i].violations # << >>

\* C6: if a matched document cannot be read, checkFiles yields no report and
\* the run ends marked failed by the catch of run(), with no markdown
\* rendered, no report file written and no output set.
C6_ReadFailureIsFatal ==
    (pc \notin {"start", "find"} /\ \E i \in DOMAIN files : ~disk[files[i]].readable) =>
        /\ pc \in {"check", "done"}
        /\ report = << >>
        /\ markdown = << >>
        /\ reportFile = << >>
        /\ outputs = << >>
        /\ pc = "done" => (failed /\ policyLog = "Action failed")

\* the run has ended failed at the second file, which cannot be read, after
\* the first file was checked and had violations
C6_Witness ==
    /\ pc = "done"
    /\ failed
    /\ Len(files) = 2
    /\ Len(fileResults) = 1
    /\ fileResults[1].violations # << >>
    /\ ~disk[files[2]].readable

C8_SameInputsSameReport ==
    (runs >= 2 /\ report # << >> /\ prevReport # << >>) => report = prevReport

\* C8 amended: two invocations on the same documents with the same enabled
\* categories yield identical reports (file results, order, violations,
\* statuses, counts, summary) if every reading of the clock by INSP-001 in
\* the two invocations gave the same value; in particular always when
\* INSP-001 never reads the clock.
C8_SameInputsSameClockSameReport ==
    (/\ runs >= 2
     /\ report # << >>
     /\ prevReport # << >>
     /\ Cardinality(clockReads[1] \cup clockReads[2]) <= 1)
    => report = prevReport

\* the second invocation has reported; both invocations read the same clock
\* value in INSP-001, which found an overdue inspection, and another rule
\* reported a warning
C8_Witness ==
    /\ runs = 2
    /\ report # << >>
    /\ prevReport = report
    /\ clockReads[1] # {}
    /\ clockReads[1] = clockReads[2]
    /\ \E s \in ViolationSlots(report[1].fileResults) :
          report[1].fileResults[s[1]].violations[s[2]].ruleId = "INSP-001"
    /\ \E s \in ViolationSlots(report[1].fileResults) :
          report[1].fileResults[s[1]].violations[s[2]].severity = "warning"

(* Reading a rendered report back *)

Heading(status) ==
    CASE status = "FAIL" -> "Failed Files"
      [] status = "WARNING" -> "Files with Warnings"
      [] status = "PASS" -> "Passed Files"

\* the lines that name a file: a ### heading or a list item
FileLines(md, filename) ==
    {k \in DOMAIN md : md[k].t \in {"h3", "item"} /\ md[k].text = filename}

\* the section a line is in: the text of the last ## heading before it
SectionOf(md, k) ==
    LET hs == {h \in 1..k : md[h].t = "h2"}
    IN  IF hs = {} THEN None
        ELSE md[CHOOSE h \in hs : \A g \in hs : g <= h].text

\* the ## headings after the summary, in order
Sections(md) ==
    LET hs == SelectSeq(md, LAMBDA l : l.t = "h2" /\ l.text # "Summary")
    IN  [i \in DOMAIN hs |-> hs[i].text]

\* the lines under the line k up to the next heading or the rule
BlockOf(md, k) ==
    LET stops == {m \in (k + 1)..Len(md) : md[m].t \in {"h2", "h3", "hr"}}
        stop == IF stops = {} THEN Len(md) + 1
                ELSE CHOOSE m \in stops : \A n \in stops : m <= n
    IN  SubSeq(md, k + 1, stop - 1)

ViolationLinesOf(block) == SelectSeq(block, LAMBDA l : l.t = "violation")

\* C9: in the rendered report every file result appears on exactly one file
\* line, in the section of its status (a heading per failed or warned file, a
\* list item per passed file); the sections are, in this order, Failed Files,
\* Files with Warnings and Passed Files, each present exactly when a file has
\* its status; files of one section keep their order of report.fileResults;
\* and under a failed or warned file its violations are rendered one line
\* each, in order.
C9_FilesGroupedByStatus ==
    markdown # << >> =>
        LET fr == report[1].fileResults
            at(i) == CHOOSE k \in FileLines(markdown, fr[i].filename) : TRUE
        IN  /\ \A i \in DOMAIN fr :
                  /\ Cardinality(FileLines(markdown, fr[i].filename)) = 1
                  /\ SectionOf(markdown, at(i)) = Heading(fr[i].status)
                  /\ markdown[at(i)].t = IF fr[i].status = "PASS" THEN "item" ELSE "h3"
            /\ Cardinality({k \in DOMAIN markdown : markdown[k].t \in {"h3", "item"}})
                   = Len(fr)
            /\ Sections(markdown)
                   = SelectSeq(<<"Failed Files", "Files with Warnings", "Passed Files">>,
                               LAMBDA h : \E i \in DOMAIN fr : Heading(fr[i].status) = h)
            /\ \A i, j \in DOMAIN fr :
                  (i < j /\ fr[i].status = fr[j].status) => at(i) < at(j)
            /\ \A i \in DOMAIN fr :
                  fr[i].status # "PASS" =>
                      LET vl == ViolationLinesOf(BlockOf(markdown, at(i)))
                      IN  /\ Len(vl) = Len(fr[i].violations)
                          /\ \A j \in DOMAIN vl :
                                /\ vl[j].ruleId = fr[i].violations[j].ruleId
                                /\ vl[j].parts = fr[i].violations[j].message
            /\ Cardinality({k \in DOMAIN markdown : markdown[k].t = "violation"})
                   = Cardinality({s \in ViolationSlots(fr) : fr[s[1]].status # "PASS"})

\* a rendering with all three sections, the passed file reported first and
\* carrying an info violation
C9_Witness ==
    /\ markdown # << >>
    /\ Len(report[1].fileResults) = 3
    /\ report[1].fileResults[1].status = "PASS"
    /\ report[1].fileResults[1].violations # << >>
    /\ report[1].fileResults[2].status = "WARNING"
    /\ report[1].fileResults[3].status = "FAIL"
    /\ Len(report[1].fileResults[3].violations) = 2

\* the icon of a severity
IconOf(severity) ==
    CASE severity = "error" -> "[x]"
      [] severity = "warning" -> "[!]"
      [] severity = "info" -> "[i]"

\* the lines that render the j-th violation under a file: from its violation
\* line up to the next violation line
EntryOf(block, j) ==
    LET starts == {m \in DOMAIN block : block[m].t = "violation"}
        nth == CHOOSE m \in starts : Cardinality({n \in starts : n <= m}) = j
        later == {m \in starts : m > nth}
        stop == IF later = {} THEN Len(block) + 1
                ELSE CHOOSE m \in later : \A n \in later : m <= n
    IN  SubSeq(block, nth, stop - 1)

\* C10: every violation of every failed or warned file is rendered with the
\* icon of its own severity, its regulation, and its suggestion exactly when
\* it has one.
C10_OwnSeverityIcon ==
    markdown # << >> =>
        LET fr == report[1].fileResults
        IN  \A i \in DOMAIN fr :
                fr[i].status # "PASS" =>
                    LET block == BlockOf(markdown, CHOOSE k \in FileLines(markdown, fr[i].filename) : TRUE)
                    IN  \A j \in DOMAIN fr[i].violations :
                            LET v == fr[i].violations[j]
                                e == EntryOf(block, j)
                            IN  /\ e[1].text = IconOf(v.severity)
                                /\ e[2].t = "regulation" /\ e[2].text = v.regulation
                                /\ (v.suggestion # << >>) <=>
                                       (\E m \in DOMAIN e : e[m].t = "suggestion"
                                                            /\ e[m].parts = v.suggestion)

\* the numbers of the count lines of a rendered report, in the order printed
PrintedCounts(md) ==
    LET cs == SelectSeq(md, LAMBDA l : l.t = "count")
    IN  [i \in DOMAIN cs |-> [label |-> cs[i].text, n |-> cs[i].n]]

StoredCounts(rep) ==
    << [label |-> "Files Checked", n |-> rep.filesChecked],
       [label |-> "Total Violations", n |-> rep.totalViolations],
       [label |-> "Errors", n |-> rep.violationsBySeverity.error],
       [label |-> "Warnings", n |-> rep.violationsBySeverity.warning],
       [label |-> "Info", n |-> rep.violationsBySeverity.info] >>

\* C11: a call of generateMarkdownReport leaves the report it is given as it
\* was (all counts, the summary, and the order, statuses and violations of
\* the file results), leaves the checker's rule list as it was, and prints
\* as counts the fields stored in the report, also when they differ from
\* what the listed file results would give.
C11_RenderLeavesReport ==
    [][pc = "render" =>
          /\ report' = report
          /\ rules' = rules
          /\ fileResults' = fileResults
          /\ PrintedCounts(markdown') = StoredCounts(report[1])]_vars

\* a report rendered whose stored counts are not those of the file results
\* it lists: a failed file was dropped from the list after the counting
C11_Witness ==
    /\ markdown # << >>
    /\ report[1].filesChecked = 2
    /\ Len(report[1].fileResults) = 1
    /\ report[1].totalViolations > SumViolations(report[1].fileResults)
    /\ report[1].violationsBySeverity.error
           > CountSeverity(report[1].fileResults, "error")
    /\ report[1].fileResults[1].status = "WARNING"
    /\ Len(rules) = 10

(* The rules one at a time *)

\* the text of the document has a line of this set
Mentions(content, lines) == \E l \in Range(content.lines) : l \in lines

ClockValues == {Now0 + 12 * k : k \in 0..MaxTicks}

\* C12: every violation a rule's check returns carries that rule's id, its
\* declared severity and its declared regulation, on every document and at
\* every time; so every violation of a file result or report has the
\* severity and regulation its rule id declares, two violations with the same
\* rule id have the same severity, and no id occurs twice in the catalog.
C12_ViolationsCarryTheirRule ==
    /\ \A i, j \in DOMAIN allRules : allRules[i].id = allRules[j].id => i = j
    /\ \A i \in DOMAIN fileResults :
          /\ \A k \in DOMAIN rules : \A t \in ClockValues :
                \A v \in Range(check(rules[k].id, disk[files[i]], t)) :
                    /\ v.ruleId = rules[k].id
                    /\ v.severity = rules[k].severity
                    /\ v.regulation = rules[k].regulation
          /\ \A v \in Range(fileResults[i].violations) :
                /\ v.ruleId \in RuleIds
                /\ v.severity = RuleOf(v.ruleId).severity
                /\ v.regulation = RuleOf(v.ruleId).regulation
    /\ report # << >> =>
          \A s, u \in ViolationSlots(report[1].fileResults) :
              LET v == report[1].fileResults[s[1]].violations[s[2]]
                  w == report[1].fileResults[u[1]].violations[u[2]]
              IN  v.ruleId = w.ruleId => v.severity = w.severity

\* a report on a document with violations of rules of both severities, of
\* three categories, several of them from one rule
C12_Witness ==
    /\ report # << >>
    /\ Len(report[1].fileResults) = 1
    /\ LET vs == report[1].fileResults[1].violations
       IN  /\ {"MAINT-001", "MAINT-004", "PILOT-001", "AROW-001"}
                  \subseteq {vs[j].ruleId : j \in DOMAIN vs}
           /\ Len(WithRuleId(vs, "AROW-001")) >= 2
           /\ Severities(vs) = {"error", "warning"}

\* the four fields of a required-field rule, in the order listed: the name
\* in the message and the lines of the vocabulary its pattern matches
RequiredFieldsOf(ruleId) ==
    CASE ruleId = "MAINT-001" ->
           << [name |-> "Description of work performed",
               lines |-> {"Description: Oil change"}],
              [name |-> "Date of completion",
               lines |-> {"Date: 10/31/2025", "Date: 01/15/2024", "Date: 12/31/2027"}],
              [name |-> "Aircraft identification",
               lines |-> {"Aircraft: N12345", "Registration: N54321"}],
              [name |-> "Signature and certificate number",
               lines |-> {"Signature: John Smith"}] >>
      [] ruleId = "PILOT-001" ->
           << [name |-> "Date",
               lines |-> {"Date: 10/31/2025", "Date: 01/15/2024", "Date: 12/31/2027"}],
              [name |-> "Aircraft make and model", lines |-> {"Aircraft: N12345"}],
              [name |-> "Aircraft registration", lines |-> {"Registration: N54321"}],
              [name |-> "Total flight time", lines |-> {"Total Time: 2.5"}] >>

MissingFields(ruleId, content) ==
    {k \in 1..4 : ~Mentions(content, RequiredFieldsOf(ruleId)[k].lines)}

\* C13: for MAINT-001 and PILOT-001, the violations of the rule in a file
\* result are one per field whose pattern matches nowhere in the document,
\* none for a field that is matched, in the order of the field list, each
\* naming its field and of severity error; so their number is the number of
\* missing fields.
C13_OneViolationPerMissingField ==
    \A i \in DOMAIN fileResults : \A id \in {"MAINT-001", "PILOT-001"} :
        LET got == WithRuleId(fileResults[i].violations, id)
            missing == MissingFields(id, disk[files[i]])
            expected == Pick(RequiredFieldsOf(id), missing)
        IN  /\ Len(got) = Cardinality(missing)
            /\ \A j \in DOMAIN got :
                  /\ got[j].message = <<"Missing required field: ", expected[j].name>>
                  /\ got[j].severity = "error"

\* a checked document where only the signature is missing of MAINT-001's
\* fields (one violation, naming it), and two fields are missing of PILOT-001's
C13_Witness ==
    /\ Len(fileResults) = 1
    /\ MissingFields("MAINT-001", disk[files[1]]) = {4}
    /\ LET got == WithRuleId(fileResults[1].violations, "MAINT-001")
       IN  /\ Len(got) = 1
           /\ got[1].message = <<"Missing required field: ",
                                 "Signature and certificate number">>
           /\ got[1].severity = "error"
    /\ Len(WithRuleId(fileResults[1].violations, "PILOT-001")) = 2

\* the conditional rules: the lines that match the trigger pattern and the
\* lines that match the requirement pattern
ConditionalRules ==
    { [id |-> "MAINT-003", trigger |-> {"Annual inspection performed"},
       requirement |-> {"per 14 CFR 43 Appendix D"}],
      [id |-> "MAINT-004", trigger |-> {"AD 2023-15-09 inspected"},
       requirement |-> {"Complied with service bulletin"}],
      [id |-> "PILOT-002", trigger |-> {"Night cross country", "Night Time: 1.2"},
       requirement |-> {"Night Time: 1.2"}],
      [id |-> "PILOT-003", trigger |-> {"Instrument approach flown"},
       requirement |-> {"ILS RWY 36C"}] }

\* C14: in every file result, each of MAINT-003, MAINT-004, PILOT-002 and
\* PILOT-003 has exactly one violation if the document matches the rule's
\* trigger pattern and not its requirement pattern, and none otherwise.
C14_ConditionalRules ==
    \A i \in DOMAIN fileResults : \A r \in ConditionalRules :
        LET content == disk[files[i]]
            fires == /\ Mentions(content, r.trigger)
                     /\ ~Mentions(content, r.requirement)
        IN  Len(WithRuleId(fileResults[i].violations, r.id)) = IF fires THEN 1 ELSE 0

\* a checked document that mentions the annual inspection and an AD, with
\* the compliance statement and without Appendix D: one MAINT-003 violation,
\* an error, and no MAINT-004 violation
C14_Witness ==
    /\ Len(fileResults) = 1
    /\ Mentions(disk[files[1]], {"Annual inspection performed"})
    /\ ~Mentions(disk[files[1]], {"per 14 CFR 43 Appendix D"})
    /\ Mentions(disk[files[1]], {"AD 2023-15-09 inspected"})
    /\ Mentions(disk[files[1]], {"Complied with service bulletin"})
    /\ Len(WithRuleId(fileResults[1].violations, "MAINT-003")) = 1
    /\ WithRuleId(fileResults[1].violations, "MAINT-003")[1].severity = "error"
    /\ WithRuleId(fileResults[1].violations, "MAINT-004") = << >>

\* the other three cases are reached too, for a rule whose requirement can
\* be met without the trigger
C14_OtherCases ==
    /\ Len(fileResults) = 1
    /\ ~Mentions(disk[files[1]], {"Instrument approach flown"})
    /\ Mentions(disk[files[1]], {"ILS RWY 36C"})
    /\ WithRuleId(fileResults[1].violations, "PILOT-003") = << >>
    /\ Mentions(disk[files[1]], {"Night cross country"})
    /\ ~Mentions(disk[files[1]], {"Night Time: 1.2"})
    /\ Len(WithRuleId(fileResults[1].violations, "PILOT-002")) = 1

\* the checklist rules: the lines that match the outer gate, and the items
\* with the lines that match each.  WB-001's gate is its wbPattern.  For
\* AROW-001 the gate taken is the weakest one, "an AROW document is mentioned
\* at all": a document that fails it fails any other gate phrase as well.
ChecklistRules ==
    { [id |-> "WB-001",
       prefix |-> "Missing weight and balance data: ",
       gate |-> {"Weight and Balance on file"},
       items |-> << [name |-> "Empty Weight", lines |-> {"Empty Weight: 1650"}],
                    [name |-> "CG Location", lines |-> {"CG: 39.5"}],
                    [name |-> "Useful Load", lines |-> {"Useful Load: 870"}] >>],
      [id |-> "AROW-001",
       prefix |-> "Missing AROW document reference: ",
       gate |-> {"Airworthiness Certificate on board", "Registration: N54321",
                 "POH on board", "Weight and Balance on file"},
       items |-> << [name |-> "Airworthiness Certificate",
                     lines |-> {"Airworthiness Certificate on board"}],
                    [name |-> "Registration", lines |-> {"Registration: N54321"}],
                    [name |-> "Operating Limitations", lines |-> {"POH on board"}],
                    [name |-> "Weight and Balance",
                     lines |-> {"Weight and Balance on file"}] >>] }

MissingItems(r, content) ==
    {k \in DOMAIN r.items : ~Mentions(content, r.items[k].lines)}

\* C15: in every file result, each of AROW-001 and WB-001 has no violation
\* if the document does not match the rule's outer gate, and otherwise one
\* violation per item whose pattern is missing, in the order of the items,
\* each naming its item, all under the rule's id.
C15_ChecklistsGated ==
    \A i \in DOMAIN fileResults : \A r \in ChecklistRules :
        LET content == disk[files[i]]
            got == WithRuleId(fileResults[i].violations, r.id)
            expected == IF Mentions(content, r.gate)
                        THEN Pick(r.items, MissingItems(r, content))
                        ELSE << >>
        IN  /\ Len(got) = Len(expected)
            /\ \A j \in DOMAIN got : got[j].message = <<r.prefix, expected[j].name>>

\* the date-shaped lines of the vocabulary: the day (since the epoch) the
\* date on the line names, or -1 if it names none (month 23)
DayOfLine(line) ==
    CASE line = "Date: 10/31/2025" -> 20392
      [] line = "Date: 01/15/2024" -> 19737
      [] line = "Date: 12/31/2027" -> 21183
      [] line = "AD 2023-15-09 inspected" -> -1

DateShaped == {"Date: 10/31/2025", "Date: 01/15/2024", "Date: 12/31/2027",
               "AD 2023-15-09 inspected"}

\* the first date-shaped line of a document that has one
FirstDateLine(content) ==
    LET at == {k \in DOMAIN content.lines : content.lines[k] \in DateShaped}
    IN  content.lines[CHOOSE k \in at : \A m \in at : k <= m]

\* C16: in every file result INSP-001 has exactly one violation if the
\* document mentions the annual inspection, has a date-shaped substring, the
\* first of them is a valid date and more than 365 days lie between it and
\* the time the rule read the clock; otherwise it has none.  So a first date
\* that cannot be parsed gives no violation whatever dates follow it, and the
\* file is reported all the same.
C16_InspectionRecency ==
    /\ \A i \in DOMAIN fileResults :
          LET content == disk[files[i]]
              overdue ==
                  /\ Mentions(content, {"Annual inspection performed"})
                  /\ Mentions(content, DateShaped)
                  /\ DayOfLine(FirstDateLine(content)) >= 0
                  /\ \E t \in clockReads[2] :
                        t - DayOfLine(FirstDateLine(content)) * 24 > 365 * 24
          IN  Len(WithRuleId(fileResults[i].violations, "INSP-001"))
                  = IF overdue THEN 1 ELSE 0
    /\ (pc = "done" /\ disk["logs/a.md"].readable) => (report # << >> /\ ~failed)

\* a reported document that mentions the annual inspection and whose first
\* date-shaped substring is unparsable, followed by a date long overdue: no
\* INSP-001 violation
C16_Witness ==
    /\ report # << >>
    /\ Len(fileResults) = 1
    /\ disk[files[1]].lines = <<"Annual inspection performed",
                                "AD 2023-15-09 inspected", "Date: 01/15/2024">>
    /\ WithRuleId(fileResults[1].violations, "INSP-001") = << >>
    /\ clockReads[2] # {}

\* the boundary: an inspection exactly 365 days before the clock reading is
\* not reported
C16_ExactlyAYear ==
    /\ Len(fileResults) = 1
    /\ disk[files[1]].lines = <<"Annual inspection performed", "Date: 10/31/2025">>
    /\ clockReads[2] = {Now0}
    /\ WithRuleId(fileResults[1].violations, "INSP-001") = << >>

\* half a day later it is
C16_JustOverAYear ==
    /\ Len(fileResults) = 1
    /\ disk[files[1]].lines = <<"Annual inspection performed", "Date: 10/31/2025">>
    /\ clockReads[2] = {Now0 + 12}
    /\ Len(WithRuleId(fileResults[1].violations, "INSP-001")) = 1

(* The order of violations and of files *)

\* what the rules of a list return on a document at a time, one after the
\* other (nothing for a rule that throws)
RECURSIVE OutputsInOrder(_, _, _)
OutputsInOrder(rs, content, t) ==
    IF rs = << >> THEN << >>
    ELSE (IF Head(rs).id \in content.raises THEN << >>
          ELSE check(Head(rs).id, content, t))
         \o OutputsInOrder(Tail(rs), content, t)

\* the position of the first occurrence of a name in a list
FirstAt(list, name) ==
    CHOOSE k \in DOMAIN list : list[k] = name /\ \A m \in 1..(k - 1) : list[m] # name

\* the violations of a list that are not INSP-001's
NotOfInspection(violations) == SelectSeq(violations, LAMBDA v : v.ruleId # "INSP-001")

\* the matched files are listed once each, in the order of first occurrence
InFirstOccurrenceOrder ==
    pc \notin {"start", "find"} =>
        LET matches == AllMatches(filePatterns)
        IN  /\ Range(files) = Range(matches)
            /\ \A i, j \in DOMAIN files :
                  i < j => FirstAt(matches, files[i]) < FirstAt(matches, files[j])

\* C17 as stated: the violations of every file result are the outputs of
\* the configured rules on that file's content, concatenated in the order of
\* the rule list; the file results follow the files in the order of their
\* first occurrence among the matches of the input patterns; and the result
\* for a file is a function of its content and the enabled categories alone,
\* so two files of a run with the same content have the same violations and
\* status.
C17_ResultFromContentAlone ==
    /\ \A i \in DOMAIN fileResults :
          /\ fileResults[i].filename = files[i]
          /\ \E t \in ClockValues :
                fileResults[i].violations = OutputsInOrder(rules, disk[files[i]], t)
    /\ InFirstOccurrenceOrder
    /\ \A i, j \in DOMAIN fileResults :
          disk[files[i]] = disk[files[j]] =>
              /\ fileResults[i].violations = fileResults[j].violations
              /\ fileResults[i].status = fileResults[j].status

\* C17 amended: rule order and file order as stated; the result for a file
\* is a function of its content, the enabled categories and the time at
\* which INSP-001 read the clock for it: two files of a run with the same
\* content have the same violations of every rule but INSP-001, and the same
\* violations and status altogether if the clock was read at one time only.
C17_RuleOrderAndFileOrder ==
    /\ \A i \in DOMAIN fileResults :
          /\ fileResults[i].filename = files[i]
          /\ \E t \in ClockValues :
                fileResults[i].violations = OutputsInOrder(rules, disk[files[i]], t)
    /\ InFirstOccurrenceOrder
    /\ \A i, j \in DOMAIN fileResults :
          disk[files[i]] = disk[files[j]] =>
              /\ NotOfInspection(fileResults[i].violations)
                     = NotOfInspection(fileResults[j].violations)
              /\ Cardinality(clockReads[2]) <= 1 =>
                    /\ fileResults[i].violations = fileResults[j].violations
                    /\ fileResults[i].status = fileResults[j].status
    /\ report # << >> =>
          /\ Len(report[1].fileResults) = Len(files)
          /\ \A i \in DOMAIN files :
                /\ report[1].fileResults[i].filename = files[i]
                /\ report[1].fileResults[i].violations = fileResults[i].violations

\* a report for patterns whose matches are b, a, b: b is reported first and
\* once, then a; the clock advanced between the two files; the first file
\* has violations of several rules, several of them from one rule and later
\* rules after it
C17_Witness ==
    /\ report # << >>
    /\ filePatterns = <<"logs/b.md", "logs/*.md">>
    /\ Len(report[1].fileResults) = 2
    /\ report[1].fileResults[1].filename = "logs/b.md"
    /\ report[1].fileResults[2].filename = "logs/a.md"
    /\ disk["logs/a.md"] # disk["logs/b.md"]
    /\ now > Now0
    /\ LET vs == report[1].fileResults[1].violations
       IN  /\ Len(vs) >= 4
           /\ vs[1].ruleId = "MAINT-001"
           /\ vs[2].ruleId = "MAINT-001"
           /\ vs[Len(vs)].ruleId = "WB-001"
    /\ report[1].fileResults[2].violations # << >>

(* The outputs of the run *)

FilesOfStatus(results, status) == {i \in DOMAIN results : results[i].status = status}

\* C18: the outputs set by run() agree with the file results of the report:
\* compliance-status is FAIL exactly when a file result has status FAIL,
\* which is exactly when the report counts an error, and PASS otherwise,
\* also when files have status WARNING; violations-found is the report's
\* totalViolations; and in every report the numbers of passed, warned and
\* failed files are those of the file results and add up to filesChecked,
\* which is totalFiles and the number of file results.
C18_OutputsAgreeWithFileResults ==
    /\ report # << >> =>
          LET r == report[1]
          IN  /\ r.summary.passed = Cardinality(FilesOfStatus(r.fileResults, "PASS"))
              /\ r.summary.warnings = Cardinality(FilesOfStatus(r.fileResults, "WARNING"))
              /\ r.summary.failed = Cardinality(FilesOfStatus(r.fileResults, "FAIL"))
              /\ r.summary.passed + r.summary.warnings + r.summary.failed = r.filesChecked
              /\ r.filesChecked = r.totalFiles
              /\ r.filesChecked = Len(r.fileResults)
              /\ r.summary.filesChecked = r.filesChecked
              /\ (r.violationsBySeverity.error > 0)
                     <=> (FilesOfStatus(r.fileResults, "FAIL") # {})
    /\ outputs # << >> =>
          LET r == report[1]
              o == outputs[1]
          IN  /\ o.complianceStatus \in {"FAIL", "PASS"}
              /\ (o.complianceStatus = "FAIL")
                     <=> (FilesOfStatus(r.fileResults, "FAIL") # {})
              /\ (o.complianceStatus = "FAIL") <=> (r.violationsBySeverity.error > 0)
              /\ o.violationsFound = r.totalViolations

\* the outputs of a run with a WARNING file and no FAIL file:
\* compliance-status PASS, violations-found not zero
C18_Witness ==
    /\ outputs # << >>
    /\ outputs[1].complianceStatus = "PASS"
    /\ outputs[1].violationsFound > 0
    /\ FilesOfStatus(report[1].fileResults, "WARNING") # {}
    /\ FilesOfStatus(report[1].fileResults, "FAIL") = {}

\* the outputs of a run with a FAIL file beside a WARNING file
C18_FailBesideWarning ==
    /\ outputs # << >>
    /\ outputs[1].complianceStatus = "FAIL"
    /\ FilesOfStatus(report[1].fileResults, "WARNING") # {}
    /\ FilesOfStatus(report[1].fileResults, "FAIL") # {}

====
